---- MODULE Spec2Model ----
(***************************************************************************)
(* Model of the generic resource Provider of go-init-utils (provider.go):  *)
(* GiuProvider[T] (a named registry with a default, guarded by a           *)
(* sync.RWMutex), the batch constructors that seed it from a parameter     *)
(* mapping, and the typed adapters (gorm, zap, redis) that override        *)
(* Shutdown.  Every method is split at its statements so that the          *)
(* interleavings of concurrent callers are explored.                       *)
(***************************************************************************)
EXTENDS Integers, Sequences, FiniteSets, TLC

(* ------------------------------------------------------------------ *)
(* Bounds                                                              *)
(* ------------------------------------------------------------------ *)
MaxCalls == 2

(* ------------------------------------------------------------------ *)
(* Domains                                                             *)
(* ------------------------------------------------------------------ *)
Threads == {1, 2}
NoThread == 0

Names == {"a", "b"}
Vals == {"v1", "v2"}
Zero == "nil"
Params == {"u1", "u2", "bad"}
Kinds == {"giu", "gorm", "zap", "redis"}
IsDefaultArgs == {<<>>, <<TRUE>>, <<FALSE>>}

VARIABLES
    phase,      \* position of the constructor: "build", "seed", then "failed" or
                \* "returned"; "ready" once the caller shares the registry
    kind,       \* which provider type wraps the registry
    params,     \* the parameter mapping handed to the batch constructor
    itemMap,    \* the constructor's local itemMap / connections
    result,     \* what the constructor returned: [reg, err]
    container,  \* GiuProvider.container
    d,          \* GiuProvider.d
    lockW,      \* sync.RWMutex: the thread holding the write lock, or NoThread
    lockR,      \* sync.RWMutex: the threads holding a read lock
    pc,         \* per thread: position inside the method it is executing
    loc,        \* per thread: arguments, locals and return value of that method
    calls,      \* number of method calls started so far
    fatal,      \* the runtime aborted: concurrent map iteration and map write
    committed,  \* history: container and d when the last writer released the lock
    added,      \* history: the <<name, value>> pairs passed to Add
    errVal,     \* the error value the constructor returned, NoErr when none
    factoryCalls, \* history: the keys the constructor called the factory for, in order
    seedOrder,  \* history: the keys NewGiuProvider inserted, in order
    shut        \* history: Shutdown has been called on the registry

vars == <<phase, kind, params, itemMap, result, container, d, lockW, lockR,
          pc, loc, calls, fatal, committed, added, errVal, factoryCalls,
          seedOrder, shut>>

(* ------------------------------------------------------------------ *)
(* Maps                                                                *)
(* ------------------------------------------------------------------ *)
EmptyMap == [n \in {} |-> Zero]

Len0(m) == Cardinality(DOMAIN m)

Values(m) == {m[n] : n \in DOMAIN m}

MapSet(m, name, v) == [n \in DOMAIN m \cup {name} |-> IF n = name THEN v ELSE m[n]]

(* ------------------------------------------------------------------ *)
(* sync.RWMutex as used by GiuProvider                                 *)
(* ------------------------------------------------------------------ *)
(* variant: a writer that does not wait for the readers to leave *)
CanLock_IgnoresReaders(w, r) == w = NoThread

CanLock(w, r) == w = NoThread /\ r = {}

(* variant: a reader that does not wait for the writer to leave *)
CanRLock_IgnoresWriter(w) == TRUE

CanRLock(w) == w = NoThread

(* variant: the write lock is never released *)
WUnlock_Leaks(w) == w

(* defer p.lock.Unlock() *)
WUnlock(w) == NoThread

(* ------------------------------------------------------------------ *)
(* GiuProvider.Add, statement by statement                             *)
(* ------------------------------------------------------------------ *)
(* variant: the isDefault argument is ignored *)
AddFlagD_IgnoresFlag(cur, v, isDefault) == cur

(* variant: any isDefault argument, true or false, makes the value the default *)
AddFlagD_AnyFlag(cur, v, isDefault) ==
    IF Len(isDefault) > 0 THEN v ELSE cur

AddFlagD(cur, v, isDefault) ==
    IF Len(isDefault) > 0 /\ isDefault[1] THEN v ELSE cur

(* variant: the first insertion does not become the default *)
AddEmptyD_NoFirstDefault(cur, cont, v) == cur

(* variant: every insertion becomes the default *)
AddEmptyD_Always(cur, cont, v) == v

AddEmptyD(cur, cont, v) ==
    IF Len0(cont) = 0 THEN v ELSE cur

(* variant: an existing name keeps its stored instance *)
AddStore_KeepsExisting(cont, name, v) ==
    IF name \in DOMAIN cont THEN cont ELSE MapSet(cont, name, v)

(* variant: the value is not stored *)
AddStore_Drops(cont, name, v) == cont

AddStore(cont, name, v) == MapSet(cont, name, v)

(* the whole body of Add, as run by the single-threaded constructor *)
AddBody(cont, cur, name, v, isDefault) ==
    [container |-> AddStore(cont, name, v),
     d |-> AddEmptyD(AddFlagD(cur, v, isDefault), cont, v)]

(* ------------------------------------------------------------------ *)
(* GiuProvider.Get / SetDefault                                        *)
(* ------------------------------------------------------------------ *)
(* variant: a missing name is reported as found *)
GetValue_AlwaysFound(cont, name) ==
    IF name \in DOMAIN cont THEN [val |-> cont[name], ok |-> TRUE]
    ELSE [val |-> Zero, ok |-> TRUE]

GetValue(cont, name) ==
    IF name \in DOMAIN cont THEN [val |-> cont[name], ok |-> TRUE]
    ELSE [val |-> Zero, ok |-> FALSE]

SetDefaultFound(cont, name) == name \in DOMAIN cont

(* variant: the default is never reassigned *)
SetDefaultD_NoAssign(cur, cont, name) == cur

SetDefaultD(cur, cont, name) ==
    IF SetDefaultFound(cont, name) THEN cont[name] ELSE cur

(* ------------------------------------------------------------------ *)
(* Factories and per-instance close calls (external collaborators)     *)
(* ------------------------------------------------------------------ *)
NoName == "-"

NoErr == [cause |-> "-", name |-> NoName]

(* newFunc(v): the factory sees the parameter only, never the key, so   *)
(* the error it returns names its cause and no key.                      *)
NewFunc(u) ==
    [val |-> IF u = "u1" THEN "v1" ELSE IF u = "u2" THEN "v2" ELSE Zero,
     err |-> u = "bad",
     error |-> IF u = "bad" THEN [cause |-> u, name |-> NoName] ELSE NoErr]

(* variant: a factory error is dropped and construction goes on *)
BuildAbort_Never(item) == FALSE

(* if err != nil { return nil, err } *)
BuildAbort(item) == item.err

(* variant: the cause is replaced by a fixed construction error *)
BuildError_DropsCause(k, item) == [cause |-> "construction failed", name |-> NoName]

(* return nil, err *)
BuildError(k, item) == item.error

(* variant: the zero value is stored in place of the built item *)
ItemStore_Zero(m, k, item) == MapSet(m, k, Zero)

(* itemMap[k] = item *)
ItemStore(m, k, item) == MapSet(m, k, item.val)

CloseOutcomes(k) ==
    IF k = "gorm" THEN {"dberr", "ok", "closeerr"} ELSE {"ok", "closeerr"}

(* variant: a failure to obtain the connection aborts like a failed Close *)
ShutdownAborts_AnyError(outcome) == outcome # "ok"

(* variant: best-effort teardown that closes every instance *)
ShutdownAborts_Never(outcome) == FALSE

ShutdownAborts(outcome) == outcome = "closeerr"

(* variant: the loop is left after the first instance *)
RangeDone_AfterFirst(keys0, visited) == visited # {}

(* the range loop is over once every key it started on has been produced *)
RangeDone(keys0, visited) == keys0 \subseteq visited

(* ------------------------------------------------------------------ *)
(* Locals                                                              *)
(* ------------------------------------------------------------------ *)
NoRet == [val |-> Zero, ok |-> FALSE]

NoLoc == [name |-> "-", v |-> Zero, isDefault |-> <<>>, keys0 |-> {},
          log |-> <<>>, ret |-> NoRet, late |-> FALSE]

Snapshot(cont, cur) == [container |-> cont, d |-> cur]

Init ==
    /\ phase = "build"
    /\ kind \in Kinds
    /\ params \in UNION {[S -> Params] : S \in SUBSET Names}
    \* every successful factory call makes a new instance: an instance is
    \* named after the parameter it was built from, so no two keys share one
    /\ \A j, k \in DOMAIN params :
          (j # k /\ ~NewFunc(params[j]).err) => params[j] # params[k]
    /\ itemMap = EmptyMap
    /\ result = [reg |-> FALSE, err |-> FALSE]
    /\ container = EmptyMap
    /\ d = Zero
    /\ lockW = NoThread
    /\ lockR = {}
    /\ pc = [t \in Threads |-> "idle"]
    /\ loc = [t \in Threads |-> NoLoc]
    /\ calls = 0
    /\ fatal = FALSE
    /\ committed = Snapshot(EmptyMap, Zero)
    /\ added = {}
    /\ errVal = NoErr
    /\ factoryCalls = <<>>
    /\ seedOrder = <<>>
    /\ shut = FALSE


(* ------------------------------------------------------------------ *)
(* Batch construction: New...FromParamsError, NewGormProviderFromParams *)
(* followed by NewGiuProvider(itemMap).  The registry is not shared    *)
(* until the constructor returns, so each loop iteration is one step.  *)
(* ------------------------------------------------------------------ *)
BuildOne(k) ==
    /\ phase = "build"
    /\ k \in DOMAIN params \ DOMAIN itemMap
    /\ factoryCalls' = Append(factoryCalls, k)
    /\ LET item == NewFunc(params[k]) IN
         IF BuildAbort(item)
         THEN /\ phase' = "failed"
              /\ result' = [reg |-> FALSE, err |-> TRUE]
              /\ errVal' = BuildError(k, item)
              /\ UNCHANGED itemMap
         ELSE /\ itemMap' = ItemStore(itemMap, k, item)
              /\ UNCHANGED <<phase, result, errVal>>
    /\ UNCHANGED <<kind, params, container, d, lockW, lockR, pc, loc, calls,
                   fatal, committed, added, seedOrder, shut>>

BuildDone ==
    /\ phase = "build"
    /\ DOMAIN itemMap = DOMAIN params
    /\ phase' = "seed"
    /\ UNCHANGED <<kind, params, itemMap, result, container, d, lockW, lockR,
                   pc, loc, calls, fatal, committed, added,
                   errVal, factoryCalls, seedOrder, shut>>

SeedOne(k) ==
    /\ phase = "seed"
    /\ k \in DOMAIN itemMap \ DOMAIN container
    /\ LET after == AddBody(container, d, k, itemMap[k], <<>>) IN
         /\ container' = after.container
         /\ d' = after.d
         /\ committed' = Snapshot(after.container, after.d)
    /\ added' = added \cup {<<k, itemMap[k]>>}
    /\ seedOrder' = Append(seedOrder, k)
    /\ UNCHANGED <<phase, kind, params, itemMap, result, lockW, lockR, pc,
                   loc, calls, fatal,
                   errVal, factoryCalls, shut>>

SeedDone ==
    /\ phase = "seed"
    /\ DOMAIN container = DOMAIN itemMap
    /\ phase' = "returned"
    /\ result' = [reg |-> TRUE, err |-> FALSE]
    /\ UNCHANGED <<kind, params, itemMap, container, d, lockW, lockR, pc, loc,
                   calls, fatal, committed, added,
                   errVal, factoryCalls, seedOrder, shut>>

(* The constructor's frame is gone; the caller hands the registry to the *)
(* application's threads.                                                *)
Share ==
    /\ phase = "returned"
    /\ phase' = "ready"
    /\ params' = EmptyMap
    /\ itemMap' = EmptyMap
    /\ factoryCalls' = <<>>
    /\ seedOrder' = <<>>
    /\ UNCHANGED <<kind, result, container, d, lockW, lockR, pc, loc, calls,
                   fatal, committed, added,
                   errVal, shut>>

(* ------------------------------------------------------------------ *)
(* Method calls by the application's threads                           *)
(* ------------------------------------------------------------------ *)
Running == phase = "ready" /\ ~fatal

(* Callers are interchangeable goroutines: a new call is run by the     *)
(* lowest-numbered goroutine that is not inside a call.                  *)
CanCall(t) ==
    /\ Running
    /\ pc[t] = "idle"
    /\ calls < MaxCalls
    /\ \A u \in Threads : u < t => pc[u] # "idle"

At(t, l) == Running /\ pc[t] = l

Goto(t, l) == pc' = [pc EXCEPT ![t] = l]

Return(t) ==
    /\ pc' = [pc EXCEPT ![t] = "idle"]
    /\ loc' = [loc EXCEPT ![t] = NoLoc]

(* A call blocked on the lock has not used its arguments yet: they are  *)
(* drawn when the call enters its critical section.                      *)

(* ---- Add ---- *)
CallAdd(t) ==
    /\ CanCall(t)
    /\ calls' = calls + 1
    /\ Goto(t, "add_lock")
    /\ UNCHANGED <<phase, kind, params, itemMap, result, container, d, lockW,
                   lockR, loc, fatal, committed, added,
                   errVal, factoryCalls, seedOrder, shut>>

AddLock(t, name, v, isDefault) ==
    /\ At(t, "add_lock")
    /\ CanLock(lockW, lockR)
    /\ lockW' = t
    /\ Goto(t, "add_flag")
    /\ loc' = [loc EXCEPT ![t] = [NoLoc EXCEPT !.name = name, !.v = v,
                                               !.isDefault = isDefault,
                                               !.late = shut]]
    /\ added' = added \cup {<<name, v>>}
    /\ UNCHANGED <<phase, kind, params, itemMap, result, container, d, lockR,
                   calls, fatal, committed,
                   errVal, factoryCalls, seedOrder, shut>>

AddFlag(t) ==
    /\ At(t, "add_flag")
    /\ d' = AddFlagD(d, loc[t].v, loc[t].isDefault)
    /\ Goto(t, "add_empty")
    /\ UNCHANGED <<phase, kind, params, itemMap, result, container, lockW,
                   lockR, loc, calls, fatal, committed, added,
                   errVal, factoryCalls, seedOrder, shut>>

AddEmpty(t) ==
    /\ At(t, "add_empty")
    /\ d' = AddEmptyD(d, container, loc[t].v)
    /\ Goto(t, "add_store")
    /\ UNCHANGED <<phase, kind, params, itemMap, result, container, lockW,
                   lockR, loc, calls, fatal, committed, added,
                   errVal, factoryCalls, seedOrder, shut>>

AddStoreStep(t) ==
    /\ At(t, "add_store")
    /\ container' = AddStore(container, loc[t].name, loc[t].v)
    /\ Goto(t, "add_unlock")
    /\ UNCHANGED <<phase, kind, params, itemMap, result, d, lockW, lockR,
                   loc, calls, fatal, committed, added,
                   errVal, factoryCalls, seedOrder, shut>>

AddUnlock(t) ==
    /\ At(t, "add_unlock")
    /\ lockW' = WUnlock(lockW)
    /\ committed' = Snapshot(container, d)
    /\ Return(t)
    /\ UNCHANGED <<phase, kind, params, itemMap, result, container, d, lockR,
                   calls, fatal, added,
                   errVal, factoryCalls, seedOrder, shut>>

(* ---- Get ---- *)
CallGet(t) ==
    /\ CanCall(t)
    /\ calls' = calls + 1
    /\ Goto(t, "get_rlock")
    /\ UNCHANGED <<phase, kind, params, itemMap, result, container, d, lockW,
                   lockR, loc, fatal, committed, added,
                   errVal, factoryCalls, seedOrder, shut>>

GetRLock(t, name) ==
    /\ At(t, "get_rlock")
    /\ CanRLock(lockW)
    /\ lockR' = lockR \cup {t}
    /\ Goto(t, "get_read")
    /\ loc' = [loc EXCEPT ![t] = [NoLoc EXCEPT !.name = name]]
    /\ UNCHANGED <<phase, kind, params, itemMap, result, container, d, lockW,
                   calls, fatal, committed, added,
                   errVal, factoryCalls, seedOrder, shut>>

GetRead(t) ==
    /\ At(t, "get_read")
    /\ loc' = [loc EXCEPT ![t].ret = GetValue(container, loc[t].name)]
    /\ Goto(t, "get_runlock")
    /\ UNCHANGED <<phase, kind, params, itemMap, result, container, d, lockW,
                   lockR, calls, fatal, committed, added,
                   errVal, factoryCalls, seedOrder, shut>>

GetRUnlock(t) ==
    /\ At(t, "get_runlock")
    /\ lockR' = lockR \ {t}
    /\ Return(t)
    /\ UNCHANGED <<phase, kind, params, itemMap, result, container, d, lockW,
                   calls, fatal, committed, added,
                   errVal, factoryCalls, seedOrder, shut>>

(* ---- Default ---- *)
CallDefault(t) ==
    /\ CanCall(t)
    /\ calls' = calls + 1
    /\ Goto(t, "def_rlock")
    /\ UNCHANGED <<phase, kind, params, itemMap, result, container, d, lockW,
                   lockR, loc, fatal, committed, added,
                   errVal, factoryCalls, seedOrder, shut>>

DefRLock(t) ==
    /\ At(t, "def_rlock")
    /\ CanRLock(lockW)
    /\ lockR' = lockR \cup {t}
    /\ Goto(t, "def_read")
    /\ UNCHANGED <<phase, kind, params, itemMap, result, container, d, lockW,
                   loc, calls, fatal, committed, added,
                   errVal, factoryCalls, seedOrder, shut>>

DefRead(t) ==
    /\ At(t, "def_read")
    /\ loc' = [loc EXCEPT ![t].ret = [val |-> d, ok |-> TRUE]]
    /\ Goto(t, "def_runlock")
    /\ UNCHANGED <<phase, kind, params, itemMap, result, container, d, lockW,
                   lockR, calls, fatal, committed, added,
                   errVal, factoryCalls, seedOrder, shut>>

DefRUnlock(t) ==
    /\ At(t, "def_runlock")
    /\ lockR' = lockR \ {t}
    /\ Return(t)
    /\ UNCHANGED <<phase, kind, params, itemMap, result, container, d, lockW,
                   calls, fatal, committed, added,
                   errVal, factoryCalls, seedOrder, shut>>

(* ---- SetDefault ---- *)
CallSetDefault(t) ==
    /\ CanCall(t)
    /\ calls' = calls + 1
    /\ Goto(t, "sd_lock")
    /\ UNCHANGED <<phase, kind, params, itemMap, result, container, d, lockW,
                   lockR, loc, fatal, committed, added,
                   errVal, factoryCalls, seedOrder, shut>>

SdLock(t, name) ==
    /\ At(t, "sd_lock")
    /\ CanLock(lockW, lockR)
    /\ lockW' = t
    /\ Goto(t, "sd_check")
    /\ loc' = [loc EXCEPT ![t] = [NoLoc EXCEPT !.name = name, !.late = shut]]
    /\ UNCHANGED <<phase, kind, params, itemMap, result, container, d, lockR,
                   calls, fatal, committed, added,
                   errVal, factoryCalls, seedOrder, shut>>

SdCheck(t) ==
    /\ At(t, "sd_check")
    /\ d' = SetDefaultD(d, container, loc[t].name)
    /\ loc' = [loc EXCEPT ![t].ret =
                  [val |-> Zero, ok |-> SetDefaultFound(container, loc[t].name)]]
    /\ Goto(t, "sd_unlock")
    /\ UNCHANGED <<phase, kind, params, itemMap, result, container, lockW,
                   lockR, calls, fatal, committed, added,
                   errVal, factoryCalls, seedOrder, shut>>

SdUnlock(t) ==
    /\ At(t, "sd_unlock")
    /\ lockW' = WUnlock(lockW)
    /\ committed' = Snapshot(container, d)
    /\ Return(t)
    /\ UNCHANGED <<phase, kind, params, itemMap, result, container, d, lockR,
                   calls, fatal, added,
                   errVal, factoryCalls, seedOrder, shut>>

(* ---- Shutdown ---- *)
Visited(t) == {loc[t].log[i].name : i \in DOMAIN loc[t].log}

CallShutdown(t) ==
    /\ CanCall(t)
    /\ calls' = calls + 1
    /\ shut' = TRUE
    /\ Goto(t, IF kind = "giu" THEN "sh_giu" ELSE "sh_range")
    /\ UNCHANGED <<phase, kind, params, itemMap, result, container, d, lockW,
                   lockR, loc, fatal, committed, added,
                   errVal, factoryCalls, seedOrder>>

(* variant: the generic Shutdown empties the registry *)
ShGiu_Clears(t) ==
    /\ At(t, "sh_giu")
    /\ container' = EmptyMap
    /\ loc' = [loc EXCEPT ![t].ret = [val |-> Zero, ok |-> TRUE]]
    /\ Goto(t, "sh_ret")
    /\ UNCHANGED <<phase, kind, params, itemMap, result, d, lockW,
                   lockR, calls, fatal, committed, added,
                   errVal, factoryCalls, seedOrder, shut>>

(* GiuProvider.Shutdown: return nil *)
ShGiu(t) ==
    /\ At(t, "sh_giu")
    /\ loc' = [loc EXCEPT ![t].ret = [val |-> Zero, ok |-> TRUE]]
    /\ Goto(t, "sh_ret")
    /\ UNCHANGED <<phase, kind, params, itemMap, result, container, d, lockW,
                   lockR, calls, fatal, committed, added,
                   errVal, factoryCalls, seedOrder, shut>>

(* for _, v := range container: the loop starts on the keys present now; *)
(* keys added while it runs may be produced or skipped.                  *)
ShRange(t) ==
    /\ At(t, "sh_range")
    /\ loc' = [loc EXCEPT ![t].keys0 = DOMAIN container]
    /\ Goto(t, "sh_iter")
    /\ UNCHANGED <<phase, kind, params, itemMap, result, container, d, lockW,
                   lockR, calls, fatal, committed, added,
                   errVal, factoryCalls, seedOrder, shut>>

ShIter(t, n, outcome) ==
    /\ At(t, "sh_iter")
    /\ n \in DOMAIN container \ Visited(t)
    /\ outcome \in CloseOutcomes(kind)
    /\ LET v == container[n] IN
         /\ loc' = [loc EXCEPT
                      ![t].log = Append(@, [name |-> n, v |-> v, outcome |-> outcome]),
                      ![t].ret = IF ShutdownAborts(outcome)
                                 THEN [val |-> v, ok |-> FALSE] ELSE @]
         /\ Goto(t, IF ShutdownAborts(outcome) THEN "sh_ret" ELSE "sh_iter")
    /\ UNCHANGED <<phase, kind, params, itemMap, result, container, d, lockW,
                   lockR, calls, fatal, committed, added,
                   errVal, factoryCalls, seedOrder, shut>>

ShEnd(t) ==
    /\ At(t, "sh_iter")
    /\ RangeDone(loc[t].keys0, Visited(t))
    /\ loc' = [loc EXCEPT ![t].ret = [val |-> Zero, ok |-> TRUE]]
    /\ Goto(t, "sh_ret")
    /\ UNCHANGED <<phase, kind, params, itemMap, result, container, d, lockW,
                   lockR, calls, fatal, committed, added,
                   errVal, factoryCalls, seedOrder, shut>>

ShRet(t) ==
    /\ At(t, "sh_ret")
    /\ Return(t)
    /\ UNCHANGED <<phase, kind, params, itemMap, result, container, d, lockW,
                   lockR, calls, fatal, committed, added,
                   errVal, factoryCalls, seedOrder, shut>>

(* The adapters read the map without the lock.  When the read overlaps   *)
(* the map assignment of an Add the runtime may abort the process        *)
(* ("concurrent map iteration and map write") or let the read go on.     *)
ShFatal(t) ==
    /\ Running
    /\ pc[t] \in {"sh_range", "sh_iter"}
    /\ \E u \in Threads : pc[u] = "add_store"
    /\ fatal' = TRUE
    /\ UNCHANGED <<phase, kind, params, itemMap, result, container, d, lockW,
                   lockR, pc, loc, calls, committed, added,
                   errVal, factoryCalls, seedOrder, shut>>

Next ==
    \/ \E k \in Names : BuildOne(k)
    \/ BuildDone
    \/ \E k \in Names : SeedOne(k)
    \/ SeedDone
    \/ Share
    \/ \E t \in Threads : CallAdd(t)
    \/ \E t \in Threads, n \in Names, v \in Vals, f \in IsDefaultArgs : AddLock(t, n, v, f)
    \/ \E t \in Threads : AddFlag(t)
    \/ \E t \in Threads : AddEmpty(t)
    \/ \E t \in Threads : AddStoreStep(t)
    \/ \E t \in Threads : AddUnlock(t)
    \/ \E t \in Threads : CallGet(t)
    \/ \E t \in Threads, n \in Names : GetRLock(t, n)
    \/ \E t \in Threads : GetRead(t)
    \/ \E t \in Threads : GetRUnlock(t)
    \/ \E t \in Threads : CallDefault(t)
    \/ \E t \in Threads : DefRLock(t)
    \/ \E t \in Threads : DefRead(t)
    \/ \E t \in Threads : DefRUnlock(t)
    \/ \E t \in Threads : CallSetDefault(t)
    \/ \E t \in Threads, n \in Names : SdLock(t, n)
    \/ \E t \in Threads : SdCheck(t)
    \/ \E t \in Threads : SdUnlock(t)
    \/ \E t \in Threads : CallShutdown(t)
    \/ \E t \in Threads : ShGiu(t)
    \/ \E t \in Threads : ShRange(t)
    \/ \E t \in Threads, n \in Names, o \in {"dberr", "ok", "closeerr"} : ShIter(t, n, o)
    \/ \E t \in Threads : ShEnd(t)
    \/ \E t \in Threads : ShRet(t)
    \/ \E t \in Threads : ShFatal(t)

Spec == Init /\ [][Next]_vars

(* ------------------------------------------------------------------ *)
(* The generic registry on its own (GiuProvider, Shutdown a no-op),    *)
(* run by a fair scheduler: a goroutine that can take a step of the    *)
(* method it is in eventually takes one.                               *)
(* ------------------------------------------------------------------ *)
InitGiu == Init /\ kind = "giu"

Proceed(t) ==
    \/ \E n \in Names, v \in Vals, f \in IsDefaultArgs : AddLock(t, n, v, f)
    \/ AddFlag(t)
    \/ AddEmpty(t)
    \/ AddStoreStep(t)
    \/ AddUnlock(t)
    \/ \E n \in Names : GetRLock(t, n)
    \/ GetRead(t)
    \/ GetRUnlock(t)
    \/ DefRLock(t)
    \/ DefRead(t)
    \/ DefRUnlock(t)
    \/ \E n \in Names : SdLock(t, n)
    \/ SdCheck(t)
    \/ SdUnlock(t)
    \/ ShGiu(t)
    \/ ShRet(t)

NextGiu ==
    \/ \E k \in Names : BuildOne(k)
    \/ BuildDone
    \/ \E k \in Names : SeedOne(k)
    \/ SeedDone
    \/ Share
    \/ \E t \in Threads : CallAdd(t)
    \/ \E t \in Threads : CallGet(t)
    \/ \E t \in Threads : CallDefault(t)
    \/ \E t \in Threads : CallSetDefault(t)
    \/ \E t \in Threads : CallShutdown(t)
    \/ \E t \in Threads : Proceed(t)

GiuFairSpec ==
    InitGiu /\ [][NextGiu]_vars /\ \A t \in Threads : WF_vars(Proceed(t))

TypeOK ==
    /\ phase \in {"build", "seed", "returned", "ready", "failed"}
    /\ kind \in Kinds
    /\ DOMAIN container \subseteq Names
    /\ d \in Vals \cup {Zero}
    /\ lockW \in Threads \cup {NoThread}
    /\ lockR \subseteq Threads
    /\ calls \in 0..MaxCalls

(* ================================================================== *)
(* Properties                                                          *)
(* ================================================================== *)
WriteCS(t) == pc[t] \in {"add_flag", "add_empty", "add_store", "add_unlock",
                         "sd_check", "sd_unlock"}

ReadCS(t) == pc[t] \in {"get_read", "get_runlock", "def_read", "def_runlock"}

Iterating(t) == pc[t] = "sh_iter"

(* Inside a writer's critical section `committed' is the registry as the *)
(* call found it; at add_unlock / sd_unlock the body has run and the     *)
(* registry is what the caller sees when the call returns.               *)

(* C1: the first Add into an empty registry makes its value the default, *)
(* whether the flag is true, false or omitted.                           *)
C1_FirstAddBecomesDefault ==
    \A t \in Threads :
        (pc[t] = "add_unlock" /\ Len0(committed.container) = 0)
            => d = loc[t].v

C1_Witness ==
    \E t \in Threads :
        /\ pc[t] = "add_unlock"
        /\ Len0(committed.container) = 0
        /\ loc[t].isDefault = <<FALSE>>
        /\ d = loc[t].v

(* C2: Add with makeDefault = true leaves the default equal to the       *)
(* added value, whatever the registry held before.                       *)
C2_ExplicitDefaultWins ==
    \A t \in Threads :
        (pc[t] = "add_unlock" /\ loc[t].isDefault = <<TRUE>>)
            => d = loc[t].v

C2_Witness ==
    \E t \in Threads :
        /\ pc[t] = "add_unlock"
        /\ loc[t].isDefault = <<TRUE>>
        /\ Len0(committed.container) > 0
        /\ committed.d # loc[t].v
        /\ d = loc[t].v

(* C3: SetDefault(name) returns true and makes the default the stored    *)
(* value iff name is a key at call time; otherwise it returns false and  *)
(* leaves default and container unchanged.                               *)
C3_SetDefaultContract ==
    \A t \in Threads :
        pc[t] = "sd_unlock" =>
            LET found == loc[t].name \in DOMAIN committed.container IN
            /\ loc[t].ret.ok = found
            /\ container = committed.container
            /\ found => d = committed.container[loc[t].name]
            /\ ~found => d = committed.d

C3_Witness ==
    \E t \in Threads :
        /\ pc[t] = "sd_unlock"
        /\ loc[t].name \in DOMAIN committed.container
        /\ loc[t].ret.ok
        /\ committed.d # committed.container[loc[t].name]
        /\ d = committed.container[loc[t].name]

(* C4: Add under an existing name without makeDefault replaces the      *)
(* stored value, adds no name and leaves the default as it was.          *)
C4_OverwriteSemantics ==
    \A t \in Threads :
        (/\ pc[t] = "add_unlock"
         /\ loc[t].name \in DOMAIN committed.container
         /\ loc[t].isDefault # <<TRUE>>)
            => /\ GetValue(container, loc[t].name) = [val |-> loc[t].v, ok |-> TRUE]
               /\ DOMAIN container = DOMAIN committed.container
               /\ d = committed.d

C4_Witness ==
    \E t \in Threads :
        /\ pc[t] = "add_unlock"
        /\ loc[t].name \in DOMAIN committed.container
        /\ loc[t].isDefault # <<TRUE>>
        /\ committed.container[loc[t].name] # loc[t].v
        /\ committed.d = committed.container[loc[t].name]
        /\ container[loc[t].name] = loc[t].v
        /\ d = committed.d

(* C5: invariant I1: whenever no writer is inside Add or SetDefault and  *)
(* the container is non-empty, the default is one of the stored values.  *)
C5_DefaultIsStored ==
    (phase = "ready" /\ lockW = NoThread /\ Len0(container) > 0)
        => d \in Values(container)

(* C6: every Get returns not-found or a value some Add passed for that   *)
(* name, every Default returns the zero value or a value passed to some  *)
(* Add, and a reader inside its critical section sees the registry as    *)
(* the last writer left it, never a half-applied Add.                    *)
C6_ReadersSeeCommitted ==
    \A t \in Threads :
        /\ pc[t] = "get_runlock" =>
              \/ loc[t].ret = [val |-> Zero, ok |-> FALSE]
              \/ loc[t].ret.ok /\ <<loc[t].name, loc[t].ret.val>> \in added
        /\ pc[t] = "def_runlock" =>
              \/ loc[t].ret.val = Zero
              \/ \E n \in Names : <<n, loc[t].ret.val>> \in added
        /\ ReadCS(t) => container = committed.container /\ d = committed.d

C6_Witness ==
    \E t, u \in Threads :
        /\ pc[t] = "get_runlock"
        /\ loc[t].ret.ok
        /\ pc[u] = "add_lock"

(* C7: a thread inside the critical section of Add or SetDefault is the *)
(* only thread inside any critical section of the registry; readers may  *)
(* share theirs.                                                         *)
C7_WritersExclusive ==
    \A t, u \in Threads :
        (t # u /\ WriteCS(t)) => ~(WriteCS(u) \/ ReadCS(u))

C7_Witness ==
    \E t, u \in Threads : t # u /\ ReadCS(t) /\ ReadCS(u)

(* C8: when the factory fails for at least one key, batch construction   *)
(* returns an error and no registry, in whatever order the keys are      *)
(* visited.                                                              *)
HasFailingKey == \E k \in DOMAIN params : NewFunc(params[k]).err

C8_FailFastConstruction ==
    /\ (HasFailingKey /\ phase \in {"failed", "returned"})
          => result = [reg |-> FALSE, err |-> TRUE]
    /\ HasFailingKey => phase \in {"build", "failed"}

C8_Witness ==
    /\ phase = "failed"
    /\ result = [reg |-> FALSE, err |-> TRUE]
    /\ Len0(itemMap) > 0
    /\ HasFailingKey

(* C9: the zap and redis adapters' Shutdown stops at the first close     *)
(* call that fails and returns its error: every earlier visit closed its *)
(* instance and nothing is visited after the failure.                    *)
C9_FailFastShutdown ==
    kind \in {"zap", "redis"} =>
        \A t \in Threads : \A i \in DOMAIN loc[t].log :
            /\ i < Len(loc[t].log) => loc[t].log[i].outcome = "ok"
            /\ loc[t].log[i].outcome = "closeerr" =>
                  /\ i = Len(loc[t].log)
                  /\ pc[t] = "sh_ret"
                  /\ loc[t].ret = [val |-> loc[t].log[i].v, ok |-> FALSE]

C9_Witness ==
    /\ kind \in {"zap", "redis"}
    /\ \E t \in Threads :
          /\ pc[t] = "sh_ret"
          /\ ~loc[t].ret.ok
          /\ Len(loc[t].log) = 2
          /\ loc[t].log[1].outcome = "ok"
          /\ loc[t].log[2].outcome = "closeerr"

(* C10: an adapter's Shutdown iterates the container only while holding  *)
(* the registry's lock, so the iteration never overlaps the critical     *)
(* section of an Add or SetDefault.                                      *)
C10_ShutdownUnderLock ==
    \A t \in Threads :
        Iterating(t) =>
            /\ t \in lockR \/ lockW = t
            /\ \A u \in Threads : ~WriteCS(u)

(* C11 as stated: when no close call fails on a zap or redis adapter,    *)
(* Shutdown returns nil and every instance held in the registry has      *)
(* received exactly one close call from it.  The registry is taken as    *)
(* the iteration saw it: every name visited, every value still stored,   *)
(* no other call in progress.                                            *)
CloseCalls(t, v) == {i \in DOMAIN loc[t].log : loc[t].log[i].v = v}

SawRegistry(t) ==
    /\ \A u \in Threads \ {t} : pc[u] = "idle"
    /\ Visited(t) = DOMAIN container
    /\ \A i \in DOMAIN loc[t].log :
          container[loc[t].log[i].name] = loc[t].log[i].v

C11_EveryInstanceClosedOnce ==
    kind \in {"zap", "redis"} =>
        \A t \in Threads :
            (pc[t] = "sh_ret" /\ loc[t].ret.ok /\ SawRegistry(t)) =>
                \A v \in Values(container) : Cardinality(CloseCalls(t, v)) = 1

(* C11 amended: when no close call fails on a zap or redis adapter,      *)
(* Shutdown returns nil after exactly one close call per name that was   *)
(* in the container when the iteration began, made on the value stored   *)
(* under that name when it was visited; an instance stored under two     *)
(* names is closed twice.                                                *)
C11_EveryNameClosedOnce ==
    kind \in {"zap", "redis"} =>
        \A t \in Threads :
            pc[t] = "sh_ret" =>
                LET log == loc[t].log IN
                /\ loc[t].ret.ok <=> (\A i \in DOMAIN log : log[i].outcome = "ok")
                /\ loc[t].ret.ok =>
                      /\ loc[t].ret.val = Zero
                      /\ loc[t].keys0 \subseteq Visited(t)
                      /\ \A i, j \in DOMAIN log :
                            log[i].name = log[j].name => i = j
                      /\ \A i \in DOMAIN log : <<log[i].name, log[i].v>> \in added

C11_Witness ==
    /\ kind \in {"zap", "redis"}
    /\ \E t \in Threads :
          /\ pc[t] = "sh_ret"
          /\ loc[t].ret.ok
          /\ SawRegistry(t)
          /\ Len(loc[t].log) = 2
          /\ loc[t].log[1].v # loc[t].log[2].v

(* C12 as stated: a registry seeded in one pass from a mapping with more *)
(* than one entry has as default the value of the entry visited last.    *)
C12_DefaultIsLastSeeded ==
    (phase = "returned" /\ Len(seedOrder) > 1)
        => d = itemMap[seedOrder[Len(seedOrder)]]

(* C12 amended: a registry seeded in one pass from a mapping with more   *)
(* than one entry has as default the value of the entry visited first,   *)
(* not the one visited last.                                             *)
C12_DefaultIsFirstNotLast ==
    (phase = "returned" /\ Len(seedOrder) > 1)
        => /\ d = itemMap[seedOrder[1]]
           /\ d # itemMap[seedOrder[Len(seedOrder)]]

C12_Witness ==
    /\ phase = "returned"
    /\ Len(seedOrder) = 2
    /\ d = itemMap[seedOrder[1]]
    /\ container[seedOrder[2]] # d

(* C13: the first item NewGiuProvider inserts becomes the default and    *)
(* stays the default while the remaining items are inserted and when     *)
(* the constructor returns.                                              *)
C13_FirstSeededStaysDefault ==
    /\ (phase \in {"seed", "returned"} /\ Len(seedOrder) >= 1)
          => /\ d = itemMap[seedOrder[1]]
             /\ GetValue(container, seedOrder[1]) = [val |-> d, ok |-> TRUE]
    /\ (phase \in {"seed", "returned"} /\ Len(seedOrder) = 0) => d = Zero

C13_Witness ==
    /\ phase = "seed"
    /\ Len(seedOrder) = 2
    /\ d = itemMap[seedOrder[1]]
    /\ d # itemMap[seedOrder[2]]

(* C14 as stated: the error of a failed batch construction identifies    *)
(* the key whose factory failed, together with the underlying cause.     *)
FailedKey == factoryCalls[Len(factoryCalls)]

C14_ErrorNamesKey ==
    phase = "failed" =>
        /\ errVal.name = FailedKey
        /\ errVal.cause = params[FailedKey]

(* C14 amended: the error of a failed batch construction is the error    *)
(* the failing factory call returned, unchanged: it carries the          *)
(* underlying cause and does not name the key.                           *)
C14_ErrorIsFactoryError ==
    /\ phase = "failed" =>
          /\ Len(factoryCalls) > 0
          /\ errVal = [cause |-> params[FailedKey], name |-> NoName]
    /\ phase # "failed" => errVal = NoErr

C14_Witness ==
    /\ phase = "failed"
    /\ Len(factoryCalls) = 2
    /\ errVal.cause = "bad"
    /\ errVal.name = NoName

(* C15 as stated: once Shutdown has been called, no Add or SetDefault    *)
(* that enters afterwards changes the container or the default.          *)
C15_ShutdownIsTerminal ==
    [][(\E t \in Threads : loc[t].late /\ WriteCS(t))
          => (container' = container /\ d' = d)]_vars

(* C15 amended: Shutdown is terminal by convention only: the registry    *)
(* keeps no record of it, and an Add or SetDefault that enters after     *)
(* Shutdown was called takes effect as on a registry never shut down.    *)
C15_LateCallsTakeEffect ==
    \A t \in Threads :
        loc[t].late =>
            /\ pc[t] = "add_unlock" =>
                  /\ GetValue(container, loc[t].name) = [val |-> loc[t].v, ok |-> TRUE]
                  /\ (loc[t].isDefault = <<TRUE>> \/ Len0(committed.container) = 0)
                        => d = loc[t].v
            /\ pc[t] = "sd_unlock" =>
                  /\ loc[t].ret.ok = (loc[t].name \in DOMAIN committed.container)
                  /\ loc[t].ret.ok => d = container[loc[t].name]

C15_Witness ==
    \E t \in Threads :
        /\ loc[t].late
        /\ pc[t] = "add_unlock"
        /\ container # committed.container
        /\ \A u \in Threads \ {t} : pc[u] = "idle"

(* C16: a successful batch construction has called the factory exactly   *)
(* once per key and returns a registry whose names are the mapping's     *)
(* keys, each bound to what the factory built for it; an empty mapping   *)
(* gives an empty registry.                                              *)
C16_BatchBuildsEveryKey ==
    phase = "returned" =>
        /\ result = [reg |-> TRUE, err |-> FALSE]
        /\ DOMAIN container = DOMAIN params
        /\ \A k \in DOMAIN params :
              GetValue(container, k) = [val |-> NewFunc(params[k]).val, ok |-> TRUE]
        /\ \A k \in Names \ DOMAIN params :
              GetValue(container, k) = [val |-> Zero, ok |-> FALSE]
        /\ Len(factoryCalls) = Cardinality(DOMAIN params)
        /\ {factoryCalls[i] : i \in DOMAIN factoryCalls} = DOMAIN params

C16_Witness ==
    /\ phase = "returned"
    /\ Len0(params) = 2
    /\ Len(factoryCalls) = 2
    /\ \A k \in DOMAIN params : container[k] = NewFunc(params[k]).val

(* C17: on the generic registry, under a fair scheduler, every call of   *)
(* Add, SetDefault, Get, Default or Shutdown eventually returns: none    *)
(* waits for the lock forever.                                           *)
C17_EveryCallReturns ==
    \A t \in Threads : (pc[t] # "idle") ~> (pc[t] = "idle")

C17_Witness ==
    \E t, u \in Threads :
        /\ pc[t] \in {"add_lock", "sd_lock"}
        /\ ReadCS(u)
        /\ ~CanLock(lockW, lockR)

(* C18: on a registry that never had an Add, Default returns the zero    *)
(* value and Get returns (zero, false) for every name.                   *)
C18_EmptyRegistryReads ==
    (phase = "ready" /\ added = {}) =>
        /\ d = Zero
        /\ \A n \in Names : GetValue(container, n) = [val |-> Zero, ok |-> FALSE]
        /\ \A t \in Threads :
              /\ pc[t] = "def_runlock" => loc[t].ret.val = Zero
              /\ pc[t] = "get_runlock" => loc[t].ret = [val |-> Zero, ok |-> FALSE]

C18_Witness ==
    /\ phase = "ready"
    /\ added = {}
    /\ \E t, u \in Threads : pc[t] = "def_runlock" /\ pc[u] = "get_runlock"

(* C19: Add without makeDefault on a non-empty container leaves the      *)
(* default unchanged; no Add changes an entry other than its own name;   *)
(* an Add changes the default only if makeDefault is true or the         *)
(* container was empty.                                                  *)
C19_AddFrame ==
    \A t \in Threads :
        pc[t] = "add_unlock" =>
            LET pre == committed IN
            /\ (loc[t].isDefault # <<TRUE>> /\ Len0(pre.container) > 0)
                  => d = pre.d
            /\ DOMAIN container = DOMAIN pre.container \cup {loc[t].name}
            /\ \A n \in DOMAIN pre.container \ {loc[t].name} :
                  container[n] = pre.container[n]
            /\ d # pre.d =>
                  (loc[t].isDefault = <<TRUE>> \/ Len0(pre.container) = 0)

C19_Witness ==
    \E t \in Threads :
        /\ pc[t] = "add_unlock"
        /\ loc[t].isDefault = <<FALSE>>
        /\ Len0(committed.container) > 0
        /\ loc[t].name \notin DOMAIN committed.container
        /\ loc[t].v # committed.d
        /\ d = committed.d
        /\ container[loc[t].name] = loc[t].v

(* C20: no step of Get, Default or the generic Shutdown changes the      *)
(* container or the default, and the generic Shutdown returns nil        *)
(* without visiting any instance.                                        *)
ReadOnlyPcs == {"get_rlock", "get_read", "get_runlock",
                "def_rlock", "def_read", "def_runlock", "sh_giu"}

ReadOnlyStep(t) ==
    /\ pc'[t] # pc[t]
    /\ \/ pc[t] \in ReadOnlyPcs
       \/ pc'[t] \in ReadOnlyPcs
       \/ kind = "giu" /\ pc[t] = "sh_ret"

GenericShutdownNil ==
    \A t \in Threads :
        (kind = "giu" /\ pc[t] = "sh_ret") =>
            /\ loc[t].ret = [val |-> Zero, ok |-> TRUE]
            /\ loc[t].log = <<>>

C20_ReadersChangeNothing ==
    [][/\ \A t \in Threads :
             ReadOnlyStep(t) => (container' = container /\ d' = d)
       /\ GenericShutdownNil']_vars

C20_Witness ==
    /\ kind = "giu"
    /\ Len0(container) > 0
    /\ \E t \in Threads :
          /\ pc[t] = "sh_ret"
          /\ loc[t].ret = [val |-> Zero, ok |-> TRUE]
          /\ loc[t].log = <<>>
    /\ container = committed.container

(* C21: the gorm adapter's Shutdown skips an instance whose v.DB() fails: *)
(* the instance gets no Close, the error is not returned and the loop     *)
(* goes on; only a failed Close aborts the loop and is returned.          *)
C21_GormSkipsHandleErrors ==
    kind = "gorm" =>
        \A t \in Threads :
            LET log == loc[t].log IN
            /\ \A i \in DOMAIN log :
                  /\ i < Len(log) => log[i].outcome \in {"ok", "dberr"}
                  /\ log[i].outcome = "closeerr" =>
                        /\ pc[t] = "sh_ret"
                        /\ loc[t].ret = [val |-> log[i].v, ok |-> FALSE]
                  /\ (log[i].outcome = "dberr" /\ i = Len(log)) =>
                        (pc[t] = "sh_iter" \/ (pc[t] = "sh_ret" /\ loc[t].ret.ok))
            /\ pc[t] = "sh_ret" =>
                  /\ loc[t].ret.ok <=>
                        (\A i \in DOMAIN log : log[i].outcome # "closeerr")
                  /\ loc[t].ret.ok =>
                        (loc[t].ret.val = Zero /\ loc[t].keys0 \subseteq Visited(t))

C21_Witness ==
    /\ kind = "gorm"
    /\ \E t \in Threads :
          /\ pc[t] = "sh_ret"
          /\ loc[t].ret = [val |-> Zero, ok |-> TRUE]
          /\ Len(loc[t].log) = 2
          /\ loc[t].log[1].outcome = "dberr"
          /\ loc[t].log[2].outcome = "ok"

(* C22: a value replaced by an Add under the same name, and stored under  *)
(* no other name, is out of the container even if it is still the         *)
(* default; a Shutdown visit closes the value stored under the visited    *)
(* name at that moment and nothing else; no step other than such a visit  *)
(* makes a close call and no step removes a name from the container.      *)
Replaced(t) == committed.container[loc[t].name]

ReplacedIsGone ==
    \A t \in Threads :
        (/\ pc[t] = "add_unlock"
         /\ loc[t].name \in DOMAIN committed.container
         /\ Replaced(t) # loc[t].v
         /\ \A m \in DOMAIN committed.container \ {loc[t].name} :
               committed.container[m] # Replaced(t))
            => Replaced(t) \notin Values(container)

VisitClosesStored(t) ==
    Len(loc'[t].log) > Len(loc[t].log) =>
        LET e == loc'[t].log[Len(loc'[t].log)] IN
        /\ pc[t] = "sh_iter"
        /\ Len(loc'[t].log) = Len(loc[t].log) + 1
        /\ e.name \in DOMAIN container
        /\ e.v = container[e.name]

FactoryFailed(i) == NewFunc(params[factoryCalls[i]]).err

AbortedBuild ==
    /\ \A i \in DOMAIN factoryCalls :
          FactoryFailed(i) => (phase = "failed" /\ i = Len(factoryCalls))
    /\ phase = "failed" =>
          /\ Len(factoryCalls) > 0
          /\ FactoryFailed(Len(factoryCalls))
          /\ \A i, j \in DOMAIN factoryCalls :
                factoryCalls[i] = factoryCalls[j] => i = j
          /\ DOMAIN itemMap =
                {factoryCalls[i] : i \in 1..(Len(factoryCalls) - 1)}
          /\ \A k \in DOMAIN params \ {factoryCalls[i] : i \in DOMAIN factoryCalls} :
                k \notin DOMAIN itemMap
          /\ result = [reg |-> FALSE, err |-> TRUE]
          /\ container = EmptyMap
          /\ ~shut
          /\ \A t \in Threads : pc[t] = "idle" /\ loc[t].log = <<>>

C23_AbortDropsBuilt ==
    [][phase # "failed" /\ AbortedBuild']_vars

C23_Witness ==
    /\ phase = "failed"
    /\ Len(factoryCalls) = 2
    /\ Len0(itemMap) = 1
    /\ \E k \in DOMAIN itemMap : itemMap[k] \in Vals
    /\ container = EmptyMap
    /\ ~shut

====
